---- MODULE Spec2Model ----
(***************************************************************************)
(* View-state model of the table family of block-kit:                      *)
(*   TableBlock      (toolbar: search, filter groups, sort menu; derives   *)
(*                    the rows handed to the base table)                   *)
(*   BaseTableBlock  (react-table instance with useSortBy, page window)    *)
(* Every action is one DOM event or prop change together with the renders  *)
(* and effects React runs before the next event is handled.                *)
(***************************************************************************)
EXTENDS Integers, Sequences, FiniteSets

(***************************************************************************)
(* Bounds of the model.                                                    *)
(***************************************************************************)
\* longest data array handed to a table
MaxRows == 3
\* largest pageSize prop tried
MaxPageSize == 2
\* largest totalPages prop handed to a pagination component on its own
MaxPages == 12
\* rows of the table whose menus and selection are exercised together
MenuRows == 2

(***************************************************************************)
(* JavaScript values.  A cell value is string | number | boolean | null |  *)
(* undefined (TableRowData); a string is the sequence of its UTF-16 code   *)
(* units, so that toLowerCase, includes and < are computed, not assumed.   *)
(***************************************************************************)
Null == "null"
Undefined == "undefined"

Str(s) == [t |-> "string", n |-> 0, s |-> s]
Num(n) == [t |-> "number", n |-> n, s |-> <<>>]
NullValue == [t |-> "null", n |-> 0, s |-> <<>>]

\* val == null  (true of null and of undefined)
IsNullish(v) == v.t \in {"null", "undefined"}

RECURSIVE DigitsOf(_)
DigitsOf(n) == IF n < 10 THEN <<48 + n>> ELSE DigitsOf(n \div 10) \o <<48 + (n % 10)>>

\* Number.prototype.toString for integers, String.prototype.toString
toString(v) ==
  CASE v.t = "string" -> v.s
    [] v.t = "number" -> IF v.n < 0 THEN <<45>> \o DigitsOf(0 - v.n) ELSE DigitsOf(v.n)
    [] v.t = "boolean" -> IF v.n = 1 THEN <<116, 114, 117, 101>> ELSE <<102, 97, 108, 115, 101>>

\* String.prototype.toLowerCase on the ASCII range
ToLowerCase(s) == [i \in 1..Len(s) |-> IF s[i] >= 65 /\ s[i] <= 90 THEN s[i] + 32 ELSE s[i]]

\* String.prototype.includes
Includes(s, sub) ==
  \E i \in 0..(Len(s) - Len(sub)) : SubSeq(s, i + 1, i + Len(sub)) = sub

\* a < b on strings: lexicographic on code units, a proper prefix is smaller
RECURSIVE StrLess(_, _)
StrLess(a, b) ==
  IF b = <<>> THEN FALSE
  ELSE IF a = <<>> THEN TRUE
  ELSE IF a[1] # b[1] THEN a[1] < b[1]
  ELSE StrLess(Tail(a), Tail(b))

(***************************************************************************)
(* The caller's configuration: columns, rows and filter groups as the test  *)
(* suite supplies them (name and age sortable, status not).                *)
(***************************************************************************)
Columns ==
  << [accessor |-> "name", sortable |-> TRUE],
     [accessor |-> "age", sortable |-> TRUE],
     [accessor |-> "status", sortable |-> FALSE] >>

Accessors == {Columns[i].accessor : i \in 1..Len(Columns)}
SortableColumns == {Columns[i].accessor : i \in {j \in 1..Len(Columns) : Columns[j].sortable}}

Active == Str(<<65, 99, 116, 105, 118, 101>>)
Inactive == Str(<<73, 110, 97, 99, 116, 105, 118, 101>>)

\* Alice 30, Bob 25, Charlie 35 are the suite's rows; alice 9 and charlie null
\* add a name differing only in case, a one-digit number and a null cell
RowPool ==
  << [name |-> Str(<<65, 108, 105, 99, 101>>), age |-> Num(30), status |-> Active],
     [name |-> Str(<<66, 111, 98>>), age |-> Num(25), status |-> Inactive],
     [name |-> Str(<<67, 104, 97, 114, 108, 105, 101>>), age |-> Num(35), status |-> Active],
     [name |-> Str(<<97, 108, 105, 99, 101>>), age |-> Num(9), status |-> Inactive],
     [name |-> Str(<<99, 104, 97, 114, 108, 105, 101>>), age |-> NullValue, status |-> Active] >>

Range(seq) == {seq[i] : i \in 1..Len(seq)}

\* arrays of distinct rows of the pool, at most n long
RECURSIVE DataArrays(_)
DataArrays(n) ==
  IF n = 0 THEN {<<>>}
  ELSE LET shorter == DataArrays(n - 1)
           longest == {x \in shorter : Len(x) = n - 1}
           grown == {Append(x, r) : x \in longest, r \in Range(RowPool)}
       IN shorter \cup {x \in grown : \A i \in 1..(Len(x) - 1) : x[i] # x[Len(x)]}

\* arrays of distinct rows of any pool, at most n long
RECURSIVE ArraysOf(_, _)
ArraysOf(pool, n) ==
  IF n = 0 THEN {<<>>}
  ELSE LET shorter == ArraysOf(pool, n - 1)
           longest == {x \in shorter : Len(x) = n - 1}
           grown == {Append(x, r) : x \in longest, r \in Range(pool)}
       IN shorter \cup {x \in grown : \A i \in 1..(Len(x) - 1) : x[i] # x[Len(x)]}

\* rows for the identity of rows: one without an id and three with the
\* distinct ids 0, 1 and 2
IdRowPool ==
  << [name |-> Str(<<65, 108, 105, 99, 101>>), age |-> Num(30), status |-> Active],
     [id |-> Num(0), name |-> Str(<<66, 111, 98>>), age |-> Num(25), status |-> Inactive],
     [id |-> Num(1), name |-> Str(<<67, 104, 97, 114, 108, 105, 101>>), age |-> Num(35),
      status |-> Active],
     [id |-> Num(2), name |-> Str(<<68, 97, 110>>), age |-> Num(40), status |-> Inactive] >>

\* rows whose age column mixes the types a cell may hold: the numbers 10
\* and 9, the string '5' and the boolean true
MixedRowPool ==
  << [name |-> Str(<<65, 108, 105, 99, 101>>), age |-> Num(10), status |-> Active],
     [name |-> Str(<<66, 111, 98>>), age |-> Str(<<53>>), status |-> Inactive],
     [name |-> Str(<<67, 104, 97, 114, 108, 105, 101>>), age |-> Num(9), status |-> Active],
     [name |-> Str(<<68, 97, 110>>), age |-> [t |-> "boolean", n |-> 1, s |-> <<>>],
      status |-> Inactive] >>

\* the first k rows of the pool
PoolPrefix(k) == SubSeq(RowPool, 1, IF k < Len(RowPool) THEN k ELSE Len(RowPool))

ALL_FILTER_VALUE == "__all__"

\* one group of two predicates on status and one group whose only option
\* carries no filterFn
FilterGroups ==
  << [id |-> "status",
      options |-> << [value |-> "active", filterFn |-> "statusActive"],
                     [value |-> "inactive", filterFn |-> "statusInactive"] >>],
     [id |-> "extra",
      options |-> << [value |-> "plain", filterFn |-> Undefined] >>] >>

GroupIds == {FilterGroups[i].id : i \in 1..Len(FilterGroups)}

\* option.filterFn(row) for the predicates the groups above carry
CallFilterFn(fn, row) ==
  CASE fn = "statusActive" -> row.status = Active
    [] fn = "statusInactive" -> row.status = Inactive

\* the values a group's radio buttons offer: the synthesized All, then its options
RadioValues(group) == {ALL_FILTER_VALUE} \cup {group.options[i].value : i \in 1..Len(group.options)}

\* the strings typed into the search box
SearchTerms == {<<>>, <<65, 108, 105>>, <<53>>}

(***************************************************************************)
(* TableBlock: the derived rows.                                           *)
(***************************************************************************)
\* what find returns when no option matches (undefined), in the options' shape
NoOption == [value |-> Undefined, filterFn |-> Undefined]

\* group.options.find(opt => opt.value === selectedOptionValue)
FindOption(group, value) ==
  LET hits == {i \in 1..Len(group.options) : group.options[i].value = value} IN
  IF hits = {} THEN NoOption
  ELSE group.options[CHOOSE i \in hits : \A j \in hits : i <= j]

\* the callback of filterGroups.every(...)
GroupAdmits(group, af, row) ==
  LET selectedOptionValue == IF group.id \in DOMAIN af THEN af[group.id] ELSE Undefined IN
  IF selectedOptionValue = Undefined \/ selectedOptionValue = ALL_FILTER_VALUE THEN TRUE
  ELSE LET selectedOption == FindOption(group, selectedOptionValue) IN
    IF selectedOption # NoOption /\ selectedOption.filterFn # Undefined
    THEN CallFilterFn(selectedOption.filterFn, row)
    ELSE TRUE

\* mutant: a row survives when any one group admits it
dataAfterGlobalFilters_anyGroup(d, af) ==
  IF Len(FilterGroups) = 0 \/ DOMAIN af = {} THEN d
  ELSE LET Keep(row) == \E g \in 1..Len(FilterGroups) : GroupAdmits(FilterGroups[g], af, row)
       IN SelectSeq(d, Keep)

dataAfterGlobalFilters(d, af) ==
  IF Len(FilterGroups) = 0 \/ DOMAIN af = {} THEN d
  ELSE LET Keep(row) == \A g \in 1..Len(FilterGroups) : GroupAdmits(FilterGroups[g], af, row)
       IN SelectSeq(d, Keep)

\* mutant: the search term is not lower-cased
ColumnMatches_rawTerm(row, accessor, term) ==
  LET val == row[accessor] IN
  ~IsNullish(val) /\ Includes(ToLowerCase(toString(val)), term)

\* the callback of columns.some(...)
ColumnMatches(row, accessor, term) ==
  LET val == row[accessor] IN
  ~IsNullish(val) /\ Includes(ToLowerCase(toString(val)), ToLowerCase(term))

\* mutant: the search runs over the caller's data, not over the filtered rows
filteredData_overData(d, af, term) ==
  IF term = <<>> THEN dataAfterGlobalFilters(d, af)
  ELSE LET Keep(row) == \E c \in 1..Len(Columns) : ColumnMatches(row, Columns[c].accessor, term)
       IN SelectSeq(d, Keep)

filteredData(d, af, term) ==
  IF term = <<>> THEN dataAfterGlobalFilters(d, af)
  ELSE LET Keep(row) == \E c \in 1..Len(Columns) : ColumnMatches(row, Columns[c].accessor, term)
       IN SelectSeq(dataAfterGlobalFilters(d, af), Keep)

\* mutant: no numeric branch, numbers are compared as strings
compareRows_asStrings(a, b, col, dir) ==
  LET av == a[col]
      bv == b[col]
  IN IF IsNullish(av) /\ IsNullish(bv) THEN 0
     ELSE IF IsNullish(av) THEN (IF dir = "asc" THEN 1 ELSE -1)
     ELSE IF IsNullish(bv) THEN (IF dir = "asc" THEN -1 ELSE 1)
     ELSE LET avStr == toString(av)
              bvStr == toString(bv)
          IN IF avStr = bvStr THEN 0
             ELSE IF dir = "asc" THEN (IF StrLess(avStr, bvStr) THEN -1 ELSE 1)
             ELSE (IF StrLess(bvStr, avStr) THEN -1 ELSE 1)

\* the comparator handed to sort: negative, zero or positive
compareRows(a, b, col, dir) ==
  LET av == a[col]
      bv == b[col]
  IN IF IsNullish(av) /\ IsNullish(bv) THEN 0
     ELSE IF IsNullish(av) THEN (IF dir = "asc" THEN 1 ELSE -1)
     ELSE IF IsNullish(bv) THEN (IF dir = "asc" THEN -1 ELSE 1)
     ELSE IF av.t = "number" /\ bv.t = "number"
          THEN (IF dir = "asc" THEN av.n - bv.n ELSE bv.n - av.n)
     ELSE LET avStr == toString(av)
              bvStr == toString(bv)
          IN IF avStr = bvStr THEN 0
             ELSE IF dir = "asc" THEN (IF StrLess(avStr, bvStr) THEN -1 ELSE 1)
             ELSE (IF StrLess(bvStr, avStr) THEN -1 ELSE 1)

\* Array.prototype.sort is stable: a row moves left only past rows that
\* compare greater than it
RECURSIVE InsertRow(_, _, _, _)
InsertRow(sorted, x, col, dir) ==
  IF sorted = <<>> THEN <<x>>
  ELSE LET last == sorted[Len(sorted)] IN
    IF compareRows(last, x, col, dir) > 0
    THEN Append(InsertRow(SubSeq(sorted, 1, Len(sorted) - 1), x, col, dir), last)
    ELSE Append(sorted, x)

RECURSIVE ArraySort(_, _, _)
ArraySort(rows, col, dir) ==
  IF rows = <<>> THEN <<>>
  ELSE InsertRow(ArraySort(SubSeq(rows, 1, Len(rows) - 1), col, dir), rows[Len(rows)], col, dir)

sortedData(d, af, term, col, dir) ==
  IF col # Null /\ dir # Null THEN ArraySort(filteredData(d, af, term), col, dir)
  ELSE filteredData(d, af, term)

\* the comparator is a consistent comparator for a set of rows: comparing
\* is antisymmetric, and the order and the equivalence it induces are
\* transitive
ConsistentComparator(rowSet, col, dir) ==
  \A a \in rowSet : \A b \in rowSet :
    /\ (compareRows(a, b, col, dir) < 0) <=> (compareRows(b, a, col, dir) > 0)
    /\ (compareRows(a, b, col, dir) = 0) <=> (compareRows(b, a, col, dir) = 0)
    /\ \A c \in rowSet :
         /\ (compareRows(a, b, col, dir) <= 0 /\ compareRows(b, c, col, dir) <= 0)
              => compareRows(a, c, col, dir) <= 0
         /\ (compareRows(a, b, col, dir) = 0 /\ compareRows(b, c, col, dir) = 0)
              => compareRows(a, c, col, dir) = 0

\* every order of the elements of a sequence
Permutations(seq) ==
  {[i \in 1..Len(seq) |-> seq[p[i]]] :
     p \in {q \in [1..Len(seq) -> 1..Len(seq)] :
              \A i \in 1..Len(seq) : \A j \in 1..Len(seq) : q[i] = q[j] => i = j}}

\* the arrays sortedData can be: Array.prototype.sort returns the stable
\* sorted order when the comparator is consistent for the rows, and an
\* order that depends on the engine when it is not
sortOutcomes(d, af, term, col, dir) ==
  IF col # Null /\ dir # Null /\ ~ConsistentComparator(Range(filteredData(d, af, term)), col, dir)
  THEN Permutations(filteredData(d, af, term))
  ELSE {sortedData(d, af, term, col, dir)}

(***************************************************************************)
(* State.                                                                  *)
(***************************************************************************)
VARIABLES
  data,            \* TableBlock prop: the caller's rows
  pageSize,        \* prop of both components
  pageNumber,      \* prop of both components
  showPagination,  \* BaseTableBlock prop (TableBlock always passes true)
  openDropdown,    \* TableBlock state: the open menu, or Null
  searchTerm,      \* TableBlock state
  activeFilters,   \* TableBlock state: group id -> chosen option value
  sortColumn,      \* sort state of the parent of the base table
  sortDirection,
  tableData,       \* the rows handed to BaseTableBlock as its data prop
  sortBy,          \* BaseTableBlock: react-table's state.sortBy
  currentPage,     \* BaseTableBlock state
  sortCalls,       \* the onSortChange calls made while handling the last event
  selectable,      \* prop of both components
  multiSelect,     \* prop of both components
  selectedRows,    \* TableBlock state: the rows last reported as selected
  selectedRowIds,  \* BaseTableBlock: react-table's state.selectedRowIds (its keys)
  selectionCalls,  \* the onSelectionChange calls made while handling the last event
  actionCalls,     \* the bulk-action handler calls made while handling the last event
  totalPagesProp,  \* totalPages prop of a pagination component used on its own
  pageCalls,       \* the onPageChange calls it made while handling the last event
  actions,         \* TableBlock prop: the bulk-action descriptors
  visibleColumns,  \* TableBlock state: the accessors of the columns shown
  listeners,       \* the (mousedown, keydown) listener pairs TableBlock has on document
  mounted          \* TableBlock is mounted

vars ==
  << data, pageSize, pageNumber, showPagination, openDropdown, searchTerm,
     activeFilters, sortColumn, sortDirection, tableData, sortBy, currentPage,
     sortCalls, selectable, multiSelect, selectedRows, selectedRowIds,
     selectionCalls, actionCalls, totalPagesProp, pageCalls, actions,
     visibleColumns, listeners, mounted >>

\* the effect on [openDropdown]: when the value changed, the cleanup of the
\* previous run removes the pair it added (it added one unless openDropdown
\* was null), then a pair is added unless openDropdown is null
listenerEffect(registered, prev, next) ==
  IF next = prev THEN registered
  ELSE registered - (IF prev # Null THEN 1 ELSE 0) + (IF next # Null THEN 1 ELSE 0)

\* an event reaches a handler of a mounted component only; what it leaves
\* alone unless it is about them: the actions prop and the visible columns;
\* the listener effect runs when the event changed openDropdown
ToolbarFrame ==
  /\ mounted
  /\ listeners' = listenerEffect(listeners, openDropdown, openDropdown')
  /\ UNCHANGED << actions, visibleColumns, mounted >>

\* an event that neither touches the selection nor calls a selection or
\* bulk-action callback; the pagination component on its own is not involved
NoSelectionEvent ==
  /\ selectionCalls' = <<>>
  /\ actionCalls' = <<>>
  /\ UNCHANGED << selectable, multiSelect, selectedRows, selectedRowIds,
                  totalPagesProp, pageCalls >>
  /\ ToolbarFrame

\* the props an event of the table leaves alone
PropsUnchanged ==
  /\ actionCalls' = <<>>
  /\ UNCHANGED << selectable, multiSelect, totalPagesProp, pageCalls >>
  /\ ToolbarFrame

\* default values of the pageSize and pageNumber props
DefaultPageSize == 10
DefaultPageNumber == 1

(***************************************************************************)
(* BaseTableBlock.                                                         *)
(***************************************************************************)
isControlledSort(sc, sd) == sc # Undefined /\ sd # Undefined

\* initialState.sortBy, read by react-table on mount and on resetSortBy
initialSortBy(sc, sd) ==
  IF isControlledSort(sc, sd) /\ sc # Null
  THEN << [id |-> sc, desc |-> (sd = "desc")] >>
  ELSE <<>>

\* mutant: the sorted column alternates between ascending and descending
toggleSortBy_neverRemoves(sb, columnId) ==
  IF Len(sb) = 1 /\ sb[1].id = columnId
  THEN << [id |-> columnId, desc |-> ~sb[1].desc] >>
  ELSE << [id |-> columnId, desc |-> FALSE] >>

\* react-table's toggleSortBy reducer without multi-sort: a column that is
\* not the sorted one replaces it ascending; the sorted column goes from
\* ascending to descending and from descending to removed
toggleSortBy(sb, columnId) ==
  IF Len(sb) = 1 /\ sb[1].id = columnId
  THEN IF sb[1].desc THEN <<>> ELSE << [id |-> columnId, desc |-> TRUE] >>
  ELSE << [id |-> columnId, desc |-> FALSE] >>

\* mutant: every column of the table can sort
canSort_everyColumn(accessor) ==
  \E i \in 1..Len(Columns) : Columns[i].accessor = accessor

\* column.canSort: a column sorts unless its definition disables it
\* (disableSortBy: !col.sortable)
canSort(accessor) ==
  \E i \in 1..Len(Columns) : Columns[i].accessor = accessor /\ Columns[i].sortable

\* react-table's sort types force a cell value to a string: a string is
\* itself, a finite number its decimal form, anything else the empty string
sortTypeToString(v) ==
  IF v.t = "string" \/ v.t = "number" THEN toString(v) ELSE <<>>

IsDigit(c) == c >= 48 /\ c <= 57

\* length of the longest prefix of s whose code units are all digits
\* (digits = TRUE) or all non-digits (digits = FALSE)
RECURSIVE RunLength(_, _)
RunLength(s, digits) ==
  IF s = <<>> \/ IsDigit(s[1]) # digits THEN 0 ELSE 1 + RunLength(Tail(s), digits)

\* a.split(/([0-9]+)/gm).filter(Boolean): the maximal runs of digits and of
\* non-digits, in order
RECURSIVE SplitAlphaNumeric(_)
SplitAlphaNumeric(s) ==
  IF s = <<>> THEN <<>>
  ELSE LET n == RunLength(s, IsDigit(s[1]))
       IN <<SubSeq(s, 1, n)>> \o SplitAlphaNumeric(SubSeq(s, n + 1, Len(s)))

\* parseInt(run, 10) of a run of digits
RECURSIVE ParseInt(_)
ParseInt(run) ==
  IF run = <<>> THEN 0
  ELSE 10 * ParseInt(SubSeq(run, 1, Len(run) - 1)) + (run[Len(run)] - 48)

\* the while loop of react-table's alphanumeric sort type over two token lists
RECURSIVE CompareTokens(_, _)
CompareTokens(a, b) ==
  IF a = <<>> \/ b = <<>> THEN Len(a) - Len(b)
  ELSE LET aa == a[1]
           bb == b[1]
           aIsNaN == ~IsDigit(aa[1])
           bIsNaN == ~IsDigit(bb[1])
       IN IF aIsNaN /\ bIsNaN
          THEN IF StrLess(bb, aa) THEN 1
               ELSE IF StrLess(aa, bb) THEN -1
               ELSE CompareTokens(Tail(a), Tail(b))
          ELSE IF aIsNaN \/ bIsNaN THEN (IF aIsNaN THEN -1 ELSE 1)
          ELSE IF ParseInt(aa) > ParseInt(bb) THEN 1
          ELSE IF ParseInt(bb) > ParseInt(aa) THEN -1
          ELSE CompareTokens(Tail(a), Tail(b))

\* react-table's default sort type
alphanumeric(av, bv) ==
  CompareTokens(SplitAlphaNumeric(sortTypeToString(av)),
                SplitAlphaNumeric(sortTypeToString(bv)))

\* the comparator of react-table's orderByFn on positions i, j of d: the sort
\* type, negated when descending; ties by row index, reversed when descending
orderByCompare(d, i, j, sort) ==
  LET sortInt == alphanumeric(d[i][sort.id], d[j][sort.id])
  IN IF sortInt # 0 THEN (IF sort.desc THEN 0 - sortInt ELSE sortInt)
     ELSE (IF sort.desc THEN j - i ELSE i - j)

RECURSIVE InsertPosition(_, _, _, _)
InsertPosition(sorted, x, d, sort) ==
  IF sorted = <<>> THEN <<x>>
  ELSE LET last == sorted[Len(sorted)] IN
    IF orderByCompare(d, last, x, sort) > 0
    THEN Append(InsertPosition(SubSeq(sorted, 1, Len(sorted) - 1), x, d, sort), last)
    ELSE Append(sorted, x)

\* orderByFn: the positions 1..n of d in sorted order
RECURSIVE orderByFn(_, _, _)
orderByFn(d, n, sort) ==
  IF n = 0 THEN <<>> ELSE InsertPosition(orderByFn(d, n - 1, sort), n, d, sort)

\* instance.rows: the data in display order. useSortBy leaves the order alone
\* under manualSortBy and while state.sortBy is empty
rows(d, sb, manualSortBy) ==
  IF manualSortBy \/ sb = <<>> THEN d
  ELSE LET order == orderByFn(d, Len(d), sb[1]) IN [i \in 1..Len(d) |-> d[order[i]]]

\* a value in a condition: false for null, undefined, 0, '' and false
Truthy(v) ==
  CASE v.t = "number" -> v.n # 0
    [] v.t = "string" -> v.s # <<>>
    [] v.t = "boolean" -> v.n = 1
    [] OTHER -> FALSE

\* row.id ? String(row.id) : String(idx)
getRowId(row, idx) ==
  IF "id" \in DOMAIN row /\ Truthy(row.id) THEN toString(row.id) ELSE toString(Num(idx))

\* Array.prototype.indexOf: the first index of row in d (from 0), or -1
indexOf(d, row) ==
  LET hits == {i \in 1..Len(d) : d[i] = row} IN
  IF hits = {} THEN -1 ELSE (CHOOSE i \in hits : \A j \in hits : i <= j) - 1

\* the id react-table gives the row at position i (from 1) of d
RowIdAt(d, i) == getRowId(d[i], i - 1)

AllRowIds(d) == {RowIdAt(d, i) : i \in 1..Len(d)}

\* initialState.selectedRowIds: the ids of the data rows whose id is among
\* the ids of the selectedRows prop; empty when that prop is not passed
initialSelectedRowIds(isControlledSelection, sel, d) ==
  IF ~isControlledSelection THEN {}
  ELSE LET idSet == {getRowId(sel[k], indexOf(d, sel[k])) : k \in 1..Len(sel)}
       IN {id \in AllRowIds(d) : id \in idSet}

\* selectedFlatRows mapped to the original rows: the selected rows in the
\* table's display order
selectedFlatRows(rws, d, ids) ==
  LET IsSelected(row) == getRowId(row, indexOf(d, row)) \in ids
  IN SelectSeq(rws, IsSelected)

\* instance.isAllRowsSelected
isAllRowsSelected(d, ids) == Len(d) > 0 /\ ids # {} /\ AllRowIds(d) \subseteq ids

\* react-table's toggleAllRowsSelected reducer: every row of the table, not
\* only the rows of the page
toggleAllRowsSelected(d, ids, value) ==
  IF value THEN ids \cup AllRowIds(d) ELSE ids \ AllRowIds(d)

\* react-table's toggleRowSelected reducer
toggleRowSelected(ids, id, value) == IF value THEN ids \cup {id} ELSE ids \ {id}

\* the selection notification effect: the onSelectionChange calls it makes
selectionNotification(multi, prevIds, ids, flatRows) ==
  IF multi /\ ids # prevIds THEN <<flatRows>> ELSE <<>>

\* mutant: in single-select mode the cell reports every row marked selected
SelectionCellChange_reportsMarked(row, found, rws) ==
  LET id == getRowId(row, indexOf(tableData, row)) IN
  IF multiSelect
  THEN LET ids == toggleRowSelected(selectedRowIds, id, id \notin selectedRowIds)
       IN [selectedRowIds |-> ids,
           selectionCalls |-> selectionNotification(TRUE, selectedRowIds, ids,
                                                    selectedFlatRows(rws, tableData, ids))]
  ELSE LET cleared == IF found THEN toggleAllRowsSelected(tableData, selectedRowIds, FALSE)
                      ELSE selectedRowIds
       IN [selectedRowIds |-> toggleRowSelected(cleared, id, TRUE),
           selectionCalls |->
             << selectedFlatRows(rws, tableData, toggleRowSelected(cleared, id, TRUE)) >>]

\* onChange of a row's checkbox.  multiSelect: react-table's own toggle, the
\* effect reports.  Otherwise the cell's handler: clear every row if the
\* row gives access to the table instance (found), select the row, report
\* it alone.
SelectionCellChange(row, found, rws) ==
  LET id == getRowId(row, indexOf(tableData, row)) IN
  IF multiSelect
  THEN LET ids == toggleRowSelected(selectedRowIds, id, id \notin selectedRowIds)
       IN [selectedRowIds |-> ids,
           selectionCalls |-> selectionNotification(TRUE, selectedRowIds, ids,
                                                    selectedFlatRows(rws, tableData, ids))]
  ELSE LET cleared == IF found THEN toggleAllRowsSelected(tableData, selectedRowIds, FALSE)
                      ELSE selectedRowIds
       IN [selectedRowIds |-> toggleRowSelected(cleared, id, TRUE),
           selectionCalls |-> << <<row>> >>]

\* onChange of the header's 'select all' checkbox:
\* toggleAllRowsSelected(e.target.checked), the effect reports
SelectionHeaderChange(rws) ==
  LET ids == toggleAllRowsSelected(tableData, selectedRowIds,
                                   ~isAllRowsSelected(tableData, selectedRowIds))
  IN [selectedRowIds |-> ids,
      selectionCalls |-> selectionNotification(multiSelect, selectedRowIds, ids,
                                               selectedFlatRows(rws, tableData, ids))]

\* the sort notification effect: the onSortChange calls it makes
sortNotification(sb, sc, sd) ==
  IF isControlledSort(sc, sd) /\ Len(sb) > 0
  THEN LET sort == sb[1]
           dir == IF sort.desc THEN "desc" ELSE "asc"
       IN IF sort.id # sc \/ dir # sd THEN << <<sort.id, dir>> >> ELSE <<>>
  ELSE <<>>

\* Math.max(1, Math.ceil(data.length / pageSize))
totalPages(n, ps) ==
  LET pages == (n + ps - 1) \div ps IN IF pages < 1 THEN 1 ELSE pages

\* mutant: the window starts at row currentPage * pageSize
displayedRows_nextWindow(rws, show, page, ps) ==
  IF ~show THEN rws
  ELSE LET startIndex == page * ps
           endIndex == IF startIndex + ps < Len(rws) THEN startIndex + ps ELSE Len(rws)
       IN SubSeq(rws, startIndex + 1, endIndex)

\* rows.slice(startIndex, endIndex), or every row without pagination
displayedRows(rws, show, page, ps) ==
  IF ~show THEN rws
  ELSE LET startIndex == (page - 1) * ps
           endIndex == IF startIndex + ps < Len(rws) THEN startIndex + ps ELSE Len(rws)
       IN SubSeq(rws, startIndex + 1, endIndex)

\* the marker getPageNumbers pushes for a collapsed run
Ellipsis == 0

\* mutant: the run between page 1 and the window is dropped without a marker
getPageNumbers_noLeadingEllipsis(cur, total) ==
  LET start0 == IF cur - 1 > 1 THEN cur - 1 ELSE 1
      end0 == IF cur + 1 < total THEN cur + 1 ELSE total
      start1 == IF cur <= 2 THEN 1 ELSE start0
      end1 == IF cur <= 2 THEN (IF 3 < total THEN 3 ELSE total) ELSE end0
      startPage == IF cur >= total - 1 THEN (IF total - 2 > 1 THEN total - 2 ELSE 1) ELSE start1
      endPage == IF cur >= total - 1 THEN total ELSE end1
      middle == [i \in 1..(IF endPage >= startPage THEN endPage - startPage + 1 ELSE 0)
                   |-> startPage + i - 1]
      Inner(p) == p # 1 /\ p # total
  IN <<1>>
     \o SelectSeq(middle, Inner)
     \o (IF endPage < total - 1 THEN <<Ellipsis>> ELSE <<>>)
     \o (IF total > 1 THEN <<total>> ELSE <<>>)

\* mutant: the window is not widened to three pages at either end
getPageNumbers_narrowEnds(cur, total) ==
  LET startPage == IF cur - 1 > 1 THEN cur - 1 ELSE 1
      endPage == IF cur + 1 < total THEN cur + 1 ELSE total
      middle == [i \in 1..(IF endPage >= startPage THEN endPage - startPage + 1 ELSE 0)
                   |-> startPage + i - 1]
      Inner(p) == p # 1 /\ p # total
  IN <<1>>
     \o (IF startPage > 2 THEN <<Ellipsis>> ELSE <<>>)
     \o SelectSeq(middle, Inner)
     \o (IF endPage < total - 1 THEN <<Ellipsis>> ELSE <<>>)
     \o (IF total > 1 THEN <<total>> ELSE <<>>)

getPageNumbers(cur, total) ==
  LET start0 == IF cur - 1 > 1 THEN cur - 1 ELSE 1
      end0 == IF cur + 1 < total THEN cur + 1 ELSE total
      start1 == IF cur <= 2 THEN 1 ELSE start0
      end1 == IF cur <= 2 THEN (IF 3 < total THEN 3 ELSE total) ELSE end0
      startPage == IF cur >= total - 1 THEN (IF total - 2 > 1 THEN total - 2 ELSE 1) ELSE start1
      endPage == IF cur >= total - 1 THEN total ELSE end1
      middle == [i \in 1..(IF endPage >= startPage THEN endPage - startPage + 1 ELSE 0)
                   |-> startPage + i - 1]
      Inner(p) == p # 1 /\ p # total
  IN <<1>>
     \o (IF startPage > 2 THEN <<Ellipsis>> ELSE <<>>)
     \o SelectSeq(middle, Inner)
     \o (IF endPage < total - 1 THEN <<Ellipsis>> ELSE <<>>)
     \o (IF total > 1 THEN <<total>> ELSE <<>>)

\* the buttons PageNumbers renders, each with its disabled attribute:
\* First, Previous and one button per listed page; nothing for one page
PageNumbersButtons(cur, total) ==
  IF total <= 1 THEN {}
  ELSE {[control |-> "first", page |-> 1, disabled |-> (cur = 1)],
        [control |-> "previous", page |-> (IF cur - 1 > 1 THEN cur - 1 ELSE 1),
         disabled |-> (cur = 1)]}
       \cup {[control |-> "page", page |-> item, disabled |-> (item = cur)] :
               item \in Range(getPageNumbers(cur, total)) \ {Ellipsis}}

\* mutant: Next is disabled on the first page
PaginationControlsButtons_nextOffAtStart(cur, total) ==
  IF total <= 1 THEN {}
  ELSE {[control |-> "previous", page |-> (IF cur - 1 > 1 THEN cur - 1 ELSE 1),
         disabled |-> (cur = 1)],
        [control |-> "next", page |-> (IF cur + 1 < total THEN cur + 1 ELSE total),
         disabled |-> (cur = 1)]}

\* the buttons PaginationControls renders: Previous and Next
PaginationControlsButtons(cur, total) ==
  IF total <= 1 THEN {}
  ELSE {[control |-> "previous", page |-> (IF cur - 1 > 1 THEN cur - 1 ELSE 1),
         disabled |-> (cur = 1)],
        [control |-> "next", page |-> (IF cur + 1 < total THEN cur + 1 ELSE total),
         disabled |-> (cur = total)]}

\* the buttons Pagination renders: those of PageNumbers and of
\* PaginationControls
PaginationButtons(cur, total) ==
  IF total <= 1 THEN {}
  ELSE PageNumbersButtons(cur, total) \cup PaginationControlsButtons(cur, total)

\* the controls are rendered only when there is more than one page
PaginationShown == showPagination /\ totalPages(Len(tableData), pageSize) > 1

\* a page-number button of PageNumbers; the current page's button is disabled
PageNumberClick(p) ==
  /\ PaginationShown
  /\ p \in Range(getPageNumbers(currentPage, totalPages(Len(tableData), pageSize)))
  /\ p # Ellipsis
  /\ p # currentPage
  /\ currentPage' = p
  /\ sortCalls' = <<>>
  /\ UNCHANGED << data, pageSize, pageNumber, showPagination, openDropdown, searchTerm,
                  activeFilters, sortColumn, sortDirection, tableData, sortBy >>
  /\ NoSelectionEvent

\* the First button of PageNumbers
FirstPageClick ==
  /\ PaginationShown
  /\ currentPage # 1
  /\ currentPage' = 1
  /\ sortCalls' = <<>>
  /\ UNCHANGED << data, pageSize, pageNumber, showPagination, openDropdown, searchTerm,
                  activeFilters, sortColumn, sortDirection, tableData, sortBy >>
  /\ NoSelectionEvent

\* the Previous buttons (of PageNumbers and of BaseTableBlock)
PreviousClick ==
  /\ PaginationShown
  /\ currentPage # 1
  /\ currentPage' = (IF currentPage - 1 > 1 THEN currentPage - 1 ELSE 1)
  /\ sortCalls' = <<>>
  /\ UNCHANGED << data, pageSize, pageNumber, showPagination, openDropdown, searchTerm,
                  activeFilters, sortColumn, sortDirection, tableData, sortBy >>
  /\ NoSelectionEvent

\* the Next button of BaseTableBlock
NextClick ==
  /\ PaginationShown
  /\ currentPage # totalPages(Len(tableData), pageSize)
  /\ currentPage' =
       (LET total == totalPages(Len(tableData), pageSize)
        IN IF currentPage + 1 < total THEN currentPage + 1 ELSE total)
  /\ sortCalls' = <<>>
  /\ UNCHANGED << data, pageSize, pageNumber, showPagination, openDropdown, searchTerm,
                  activeFilters, sortColumn, sortDirection, tableData, sortBy >>
  /\ NoSelectionEvent

(***************************************************************************)
(* TableBlock: handlers.                                                   *)
(***************************************************************************)
\* sortColumn={sortColumn || undefined}
BaseSortColumnProp(col) == IF col = Null THEN Undefined ELSE col

\* key={`table-${sortColumn || 'none'}-${sortDirection || 'none'}`}
BaseKey(col, dir) == <<col, dir>>

\* the rows of the base table in display order, standalone and inside
\* TableBlock, for given values of the state
BaseRowsAt(td, sb, sc, sd) == rows(td, sb, isControlledSort(sc, sd))
TableRowsAt(td, sb, sc, sd) == rows(td, sb, isControlledSort(BaseSortColumnProp(sc), sd))

baseRows == BaseRowsAt(tableData, sortBy, sortColumn, sortDirection)
tableRows == TableRowsAt(tableData, sortBy, sortColumn, sortDirection)

\* setSelectedRows(rows) for every call the base table makes: the rows
\* TableBlock holds afterwards
handleSelectionChange(calls) ==
  IF calls = <<>> THEN selectedRows ELSE calls[Len(calls)]

\* mutant: the column is kept when the direction is cleared
handleSortChange_keepsColumn(col, dir) == [sortColumn |-> col, sortDirection |-> dir]

\* setSortColumn(dir ? col : null); setSortDirection(dir)
handleSortChange(col, dir) ==
  [sortColumn |-> IF dir # Null THEN col ELSE Null, sortDirection |-> dir]

\* mutant: a descending column goes back to ascending instead of clearing
newDirection_neverClears(accessor) ==
  IF sortColumn = accessor /\ sortDirection = "asc" THEN "desc" ELSE "asc"

\* the direction handleMenuSortItemClick asks for
newDirection(accessor) ==
  IF sortColumn = accessor
  THEN IF sortDirection = "asc" THEN "desc"
       ELSE IF sortDirection = "desc" THEN Null
       ELSE "asc"
  ELSE "asc"

\* the bulk actions the caller supplies: one always offered, one disabled
\* for a single row, one hidden
Actions ==
  << [label |-> "archive", hidden |-> "never", disabled |-> "never"],
     [label |-> "merge", hidden |-> "never", disabled |-> "fewerThanTwo"],
     [label |-> "restore", hidden |-> "always", disabled |-> "never"] >>

\* action.hidden?.(selectedRows) ?? false and action.disabled?.(selectedRows) ?? false
CallActionPredicate(fn, sel) ==
  CASE fn = "never" -> FALSE
    [] fn = "always" -> TRUE
    [] fn = "fewerThanTwo" -> Len(sel) < 2

\* mutant: the button is rendered whether or not a row is selected
ActionsButtonRendered_withoutSelection(sel) == selectable /\ Len(actions) > 0

\* selectable && actions.length > 0 && selectedRows.length > 0: the
\* 'Selected Actions' button and its menu are rendered
ActionsButtonRendered(sel) == selectable /\ Len(actions) > 0 /\ Len(sel) > 0

\* What a render of TableBlock with new rows or a new key does to the
\* selection of the base table.  A changed key remounts the base table over
\* the rows it had: react-table starts from initialState.selectedRowIds and
\* the notification effect starts from an empty record.  The new rows then
\* reach the base table and react-table resets state.selectedRowIds to
\* initialState.selectedRowIds, computed from the selectedRows prop and the
\* new rows; every call of the effect goes to handleSelectionChange.
RenderSelection(newTableData, remount) ==
  LET ids1 == IF remount THEN initialSelectedRowIds(TRUE, selectedRows, tableData)
              ELSE selectedRowIds
      calls1 == IF remount
                THEN selectionNotification(multiSelect, {}, ids1,
                                           selectedFlatRows(tableData, tableData, ids1))
                ELSE <<>>
      sel1 == IF calls1 # <<>> THEN calls1[1] ELSE selectedRows
      ids2 == initialSelectedRowIds(TRUE, sel1, newTableData)
      calls2 == selectionNotification(multiSelect, ids1, ids2,
                                      selectedFlatRows(newTableData, newTableData, ids2))
      sel2 == IF calls2 # <<>> THEN calls2[1] ELSE sel1
  IN [selectedRowIds |-> ids2, selectedRows |-> sel2, selectionCalls |-> calls1 \o calls2]

\* What a render of TableBlock with new view state does to the base table:
\* the effect copies sortedData into tableData; a changed key remounts the
\* base table (state from props again); otherwise react-table resets sortBy
\* when it sorts by itself and receives another data array.
RenderBase(d, af, term, col, dir, newArray) ==
  /\ tableData' \in sortOutcomes(d, af, term, col, dir)
  /\ IF BaseKey(col, dir) # BaseKey(sortColumn, sortDirection)
     THEN /\ sortBy' = initialSortBy(BaseSortColumnProp(col), dir)
          /\ currentPage' = pageNumber
     ELSE /\ sortBy' = IF newArray /\ ~isControlledSort(BaseSortColumnProp(col), dir)
                       THEN initialSortBy(BaseSortColumnProp(col), dir)
                       ELSE sortBy
          /\ currentPage' = currentPage
  /\ LET sel == RenderSelection(tableData',
                                BaseKey(col, dir) # BaseKey(sortColumn, sortDirection))
     IN /\ selectedRowIds' = sel.selectedRowIds
        /\ selectedRows' = sel.selectedRows
        /\ selectionCalls' = sel.selectionCalls

\* mutant: a button opens its menu only while no menu is open
ToggleDropdown_onlyWhenClosed(menu) ==
  /\ \/ menu = "filter" /\ Len(FilterGroups) > 0
     \/ menu = "sort" /\ SortableColumns # {}
     \/ menu = "columns"
     \/ menu = "actions" /\ ActionsButtonRendered(selectedRows)
  /\ openDropdown' = IF openDropdown = Null THEN menu
                     ELSE IF openDropdown = menu THEN Null ELSE openDropdown
  /\ sortCalls' = <<>>
  /\ UNCHANGED << data, pageSize, pageNumber, showPagination, searchTerm, activeFilters,
                  sortColumn, sortDirection, tableData, sortBy, currentPage >>
  /\ NoSelectionEvent

\* the Filter, Sort, Columns and Selected Actions buttons of the toolbar
ToggleDropdown(menu) ==
  /\ \/ menu = "filter" /\ Len(FilterGroups) > 0
     \/ menu = "sort" /\ SortableColumns # {}
     \/ menu = "columns"
     \/ menu = "actions" /\ ActionsButtonRendered(selectedRows)
  /\ openDropdown' = IF openDropdown = menu THEN Null ELSE menu
  /\ sortCalls' = <<>>
  /\ UNCHANGED << data, pageSize, pageNumber, showPagination, searchTerm, activeFilters,
                  sortColumn, sortDirection, tableData, sortBy, currentPage >>
  /\ NoSelectionEvent

\* mousedown outside the open menu, or Escape
CloseDropdown ==
  /\ openDropdown # Null
  /\ openDropdown' = Null
  /\ sortCalls' = <<>>
  /\ UNCHANGED << data, pageSize, pageNumber, showPagination, searchTerm, activeFilters,
                  sortColumn, sortDirection, tableData, sortBy, currentPage >>
  /\ NoSelectionEvent

\* onChange of the search input
SetSearchTerm(term) ==
  /\ term # searchTerm
  /\ searchTerm' = term
  /\ RenderBase(data, activeFilters, term, sortColumn, sortDirection, TRUE)
  /\ sortCalls' = <<>>
  /\ UNCHANGED << data, pageSize, pageNumber, showPagination, openDropdown, activeFilters,
                  sortColumn, sortDirection >>
  /\ PropsUnchanged

\* onChange of a radio button of the open filter menu
SetActiveFilter(g, value) ==
  /\ openDropdown = "filter"
  /\ value \in RadioValues(FilterGroups[g])
  /\ activeFilters[FilterGroups[g].id] # value
  /\ activeFilters' = [activeFilters EXCEPT ![FilterGroups[g].id] = value]
  /\ RenderBase(data, activeFilters', searchTerm, sortColumn, sortDirection, TRUE)
  /\ sortCalls' = <<>>
  /\ UNCHANGED << data, pageSize, pageNumber, showPagination, openDropdown, searchTerm,
                  sortColumn, sortDirection >>
  /\ PropsUnchanged

\* click, Enter or Space on an entry of the open sort menu
handleMenuSortItemClick(accessor) ==
  /\ openDropdown = "sort"
  /\ accessor \in SortableColumns
  /\ LET next == handleSortChange(accessor, newDirection(accessor)) IN
       /\ sortColumn' = next.sortColumn
       /\ sortDirection' = next.sortDirection
       /\ RenderBase(data, activeFilters, searchTerm, next.sortColumn, next.sortDirection, TRUE)
  /\ openDropdown' = Null
  /\ sortCalls' = <<>>
  /\ UNCHANGED << data, pageSize, pageNumber, showPagination, searchTerm, activeFilters >>
  /\ PropsUnchanged

\* the updater toggleColumn hands to setVisibleColumns
toggleColumn(prevVisibleColumns, accessor) ==
  IF accessor \in Range(prevVisibleColumns)
  THEN LET Other(a) == a # accessor IN SelectSeq(prevVisibleColumns, Other)
  ELSE Append(prevVisibleColumns, accessor)

\* mutant: the columns are rendered in the order visibleColumns lists them
baseColumns_inVisibleOrder(visible) == visible

\* columns.filter(c => visibleColumns.includes(c.accessor)): the accessors of
\* the columns handed to the base table, in the order of the columns prop
baseColumns(visible) ==
  LET all == [i \in 1..Len(Columns) |-> Columns[i].accessor]
      Shown(a) == a \in Range(visible)
  IN SelectSeq(all, Shown)

\* react-table sorts by the entries of state.sortBy whose column is among
\* the table's columns
availableSortBy(sb, visible) ==
  LET Available(sort) == sort.id \in Range(baseColumns(visible)) IN SelectSeq(sb, Available)

\* the rows of the base table inside TableBlock in display order.  When
\* state.sortBy is not empty and none of its columns is shown, orderByFn has
\* no sort function and no direction left and orders by row index, descending
VisibleRowsAt(td, sb, sc, sd, visible) ==
  IF isControlledSort(BaseSortColumnProp(sc), sd) \/ sb = <<>> THEN td
  ELSE IF availableSortBy(sb, visible) = <<>>
       THEN [i \in 1..Len(td) |-> td[Len(td) + 1 - i]]
       ELSE rows(td, availableSortBy(sb, visible), FALSE)

\* click, Enter or Space on a header of the base table inside TableBlock:
\* nothing happens unless the column can sort; then react-table toggles and
\* the notification effect may call handleSortChange
HeaderClick(accessor) ==
  /\ accessor \in Range(baseColumns(visibleColumns))
  /\ IF canSort(accessor)
     THEN LET toggled == toggleSortBy(sortBy, accessor)
              calls == sortNotification(toggled, BaseSortColumnProp(sortColumn), sortDirection)
          IN /\ sortCalls' = calls
             /\ IF calls = <<>>
                THEN /\ sortBy' = toggled
                     /\ selectionCalls' = <<>>
                     /\ UNCHANGED << sortColumn, sortDirection, tableData, currentPage,
                                     selectedRows, selectedRowIds >>
                ELSE LET next == handleSortChange(calls[1][1], calls[1][2]) IN
                     /\ sortColumn' = next.sortColumn
                     /\ sortDirection' = next.sortDirection
                     /\ RenderBase(data, activeFilters, searchTerm, next.sortColumn,
                                   next.sortDirection, TRUE)
     ELSE /\ sortCalls' = <<>>
          /\ selectionCalls' = <<>>
          /\ UNCHANGED << sortColumn, sortDirection, tableData, sortBy, currentPage,
                          selectedRows, selectedRowIds >>
  /\ UNCHANGED << data, pageSize, pageNumber, showPagination, openDropdown, searchTerm,
                  activeFilters >>
  /\ PropsUnchanged

\* the checkbox of the i-th displayed row of the base table inside
\* TableBlock; every onSelectionChange call goes to handleSelectionChange
RowCheckboxClick(i) ==
  LET rws == VisibleRowsAt(tableData, sortBy, sortColumn, sortDirection, visibleColumns)
      shown == displayedRows(rws, showPagination, currentPage, pageSize)
  IN /\ selectable
     /\ i \in 1..Len(shown)
     /\ \E found \in BOOLEAN :
          LET change == SelectionCellChange(shown[i], found, rws)
          IN /\ selectedRowIds' = change.selectedRowIds
             /\ selectionCalls' = change.selectionCalls
             /\ selectedRows' = handleSelectionChange(change.selectionCalls)
     /\ sortCalls' = <<>>
     /\ UNCHANGED << data, pageSize, pageNumber, showPagination, openDropdown, searchTerm,
                     activeFilters, sortColumn, sortDirection, tableData, sortBy,
                     currentPage >>
     /\ PropsUnchanged

\* the 'select all' checkbox of the base table inside TableBlock
SelectAllClick ==
  /\ selectable
  /\ LET change == SelectionHeaderChange(
                     VisibleRowsAt(tableData, sortBy, sortColumn, sortDirection,
                                   visibleColumns))
     IN /\ selectedRowIds' = change.selectedRowIds
        /\ selectionCalls' = change.selectionCalls
        /\ selectedRows' = handleSelectionChange(change.selectionCalls)
  /\ sortCalls' = <<>>
  /\ UNCHANGED << data, pageSize, pageNumber, showPagination, openDropdown, searchTerm,
                  activeFilters, sortColumn, sortDirection, tableData, sortBy, currentPage >>
  /\ PropsUnchanged

\* mutant: the handler of a disabled entry is called all the same
ActionItemClick_ignoresDisabled(k) ==
  /\ openDropdown = "actions"
  /\ ActionsButtonRendered(selectedRows)
  /\ k \in 1..Len(actions)
  /\ ~CallActionPredicate(actions[k].hidden, selectedRows)
  /\ actionCalls' = << <<actions[k].label, selectedRows>> >>
  /\ openDropdown' = Null
  /\ sortCalls' = <<>>
  /\ selectionCalls' = <<>>
  /\ UNCHANGED << data, pageSize, pageNumber, showPagination, searchTerm, activeFilters,
                  sortColumn, sortDirection, tableData, sortBy, currentPage, selectable,
                  multiSelect, selectedRows, selectedRowIds, totalPagesProp, pageCalls >>
  /\ ToolbarFrame

\* click on an entry of the open bulk-action menu; a hidden action has no
\* entry, the onClick of a disabled one returns at once, any other calls
\* action.handler(selectedRows) and closes the menu
ActionItemClick(k) ==
  /\ openDropdown = "actions"
  /\ ActionsButtonRendered(selectedRows)
  /\ k \in 1..Len(actions)
  /\ ~CallActionPredicate(actions[k].hidden, selectedRows)
  /\ IF CallActionPredicate(actions[k].disabled, selectedRows)
     THEN /\ actionCalls' = <<>>
          /\ openDropdown' = openDropdown
     ELSE /\ actionCalls' = << <<actions[k].label, selectedRows>> >>
          /\ openDropdown' = Null
  /\ sortCalls' = <<>>
  /\ selectionCalls' = <<>>
  /\ UNCHANGED << data, pageSize, pageNumber, showPagination, searchTerm, activeFilters,
                  sortColumn, sortDirection, tableData, sortBy, currentPage, selectable,
                  multiSelect, selectedRows, selectedRowIds, totalPagesProp, pageCalls >>
  /\ ToolbarFrame

\* the elements of the page a mousedown can land on: the button of a menu,
\* the popover of the open menu, or anything else in the document
Menus == {"filter", "sort", "columns", "actions"}

Element(menu, part) == [menu |-> menu, part |-> part]

Elsewhere == Element("none", "document")

\* the conditions under which the toolbar renders the button of a menu
ButtonRendered(menu, sel) ==
  CASE menu = "filter" -> Len(FilterGroups) > 0
    [] menu = "sort" -> SortableColumns # {}
    [] menu = "columns" -> TRUE
    [] menu = "actions" -> ActionsButtonRendered(sel)

RenderedElements(od, sel) ==
  {Elsewhere}
  \cup {Element(menu, "button") : menu \in {m \in Menus : ButtonRendered(m, sel)}}
  \cup {Element(menu, "popover") : menu \in {m \in Menus : od = m /\ ButtonRendered(m, sel)}}

\* the ref of the menu openDropdown names, as handle reads it: whether
\* ref.current is an element, and the elements it contains.  The filter,
\* sort and actions refs sit on the wrapper of button and popover, which is
\* there while the button is rendered.  columnsDropdownRef is passed to the
\* wrapper and to the popover: while the popover is mounted it is the
\* popover.
OpenDropdownRef(od, sel) ==
  IF od = "columns"
  THEN [attached |-> TRUE, contains |-> {Element("columns", "popover")}]
  ELSE [attached |-> ButtonRendered(od, sel),
        contains |-> {Element(od, "button"), Element(od, "popover")}]

\* mutant: handle has no clause for the bulk-action menu
handle_noActionsClause(od, sel, target) ==
  LET ref == OpenDropdownRef(od, sel) IN
  IF od # "actions" /\ ref.attached /\ target \notin ref.contains THEN Null ELSE od

\* handle(e) of the listener effect: the value of openDropdown after a
\* mousedown on target while the menu od is recorded open
handle(od, sel, target) ==
  LET ref == OpenDropdownRef(od, sel) IN
  IF ref.attached /\ target \notin ref.contains THEN Null ELSE od

\* handleEsc(e): the value of openDropdown after a keydown
handleEsc(od, key) == IF key = "Escape" THEN Null ELSE od

\* a mousedown anywhere in the document while the listeners are registered
MouseDown(target) ==
  /\ openDropdown # Null
  /\ target \in RenderedElements(openDropdown, selectedRows)
  /\ openDropdown' = handle(openDropdown, selectedRows, target)
  /\ sortCalls' = <<>>
  /\ UNCHANGED << data, pageSize, pageNumber, showPagination, searchTerm, activeFilters,
                  sortColumn, sortDirection, tableData, sortBy, currentPage >>
  /\ NoSelectionEvent

\* a keydown anywhere in the document while the listeners are registered
KeyDown(key) ==
  /\ openDropdown # Null
  /\ openDropdown' = handleEsc(openDropdown, key)
  /\ sortCalls' = <<>>
  /\ UNCHANGED << data, pageSize, pageNumber, showPagination, searchTerm, activeFilters,
                  sortColumn, sortDirection, tableData, sortBy, currentPage >>
  /\ NoSelectionEvent

\* click, Enter or Space on an entry of the open columns menu
ToggleColumn(accessor) ==
  /\ mounted
  /\ openDropdown = "columns"
  /\ accessor \in Accessors
  /\ visibleColumns' = toggleColumn(visibleColumns, accessor)
  /\ sortCalls' = <<>>
  /\ selectionCalls' = <<>>
  /\ actionCalls' = <<>>
  /\ UNCHANGED << data, pageSize, pageNumber, showPagination, openDropdown, searchTerm,
                  activeFilters, sortColumn, sortDirection, tableData, sortBy, currentPage,
                  selectable, multiSelect, selectedRows, selectedRowIds, totalPagesProp,
                  pageCalls, actions, listeners, mounted >>

\* TableBlock is unmounted: the cleanup of the last run of the listener
\* effect is called
Unmount ==
  /\ mounted
  /\ mounted' = FALSE
  /\ listeners' = listenerEffect(listeners, openDropdown, Null)
  /\ sortCalls' = <<>>
  /\ selectionCalls' = <<>>
  /\ actionCalls' = <<>>
  /\ UNCHANGED << data, pageSize, pageNumber, showPagination, openDropdown, searchTerm,
                  activeFilters, sortColumn, sortDirection, tableData, sortBy, currentPage,
                  selectable, multiSelect, selectedRows, selectedRowIds, totalPagesProp,
                  pageCalls, actions, visibleColumns >>

\* the caller renders TableBlock with another data array
SetData(d) ==
  /\ d # data
  /\ data' = d
  /\ RenderBase(d, activeFilters, searchTerm, sortColumn, sortDirection, TRUE)
  /\ sortCalls' = <<>>
  /\ UNCHANGED << pageSize, pageNumber, showPagination, openDropdown, searchTerm,
                  activeFilters, sortColumn, sortDirection >>
  /\ PropsUnchanged

\* the caller renders TableBlock with another columns array of the same
\* columns: the effect shows every column again.  filteredData is computed
\* again; it is a new array, which reaches the base table, only while there
\* is a search term
SetColumns ==
  /\ visibleColumns' = [i \in 1..Len(Columns) |-> Columns[i].accessor]
  /\ IF searchTerm # <<>>
     THEN RenderBase(data, activeFilters, searchTerm, sortColumn, sortDirection, TRUE)
     ELSE /\ selectionCalls' = <<>>
          /\ UNCHANGED << tableData, sortBy, currentPage, selectedRows, selectedRowIds >>
  /\ sortCalls' = <<>>
  /\ actionCalls' = <<>>
  /\ mounted
  /\ UNCHANGED << data, pageSize, pageNumber, showPagination, openDropdown, searchTerm,
                  activeFilters, sortColumn, sortDirection, selectable, multiSelect,
                  totalPagesProp, pageCalls, actions, listeners, mounted >>

\* TableBlock after mount: the filter effect has set every group to All
InitTable(d, ps) ==
  /\ data = d
  /\ pageSize = ps
  /\ pageNumber = DefaultPageNumber
  /\ showPagination = TRUE
  /\ openDropdown = Null
  /\ searchTerm = <<>>
  /\ activeFilters = [id \in GroupIds |-> ALL_FILTER_VALUE]
  /\ sortColumn = Null
  /\ sortDirection = Null
  /\ tableData = sortedData(d, [id \in GroupIds |-> ALL_FILTER_VALUE], <<>>, Null, Null)
  /\ sortBy = initialSortBy(BaseSortColumnProp(Null), Null)
  /\ currentPage = DefaultPageNumber
  /\ sortCalls = <<>>

\* nothing is selected after mount and no callback has been called; no
\* pagination component is used on its own
InitSelection(sel, multi) ==
  /\ selectable = sel
  /\ multiSelect = multi
  /\ selectedRows = <<>>
  /\ selectedRowIds = {}
  /\ selectionCalls = <<>>
  /\ actionCalls = <<>>
  /\ totalPagesProp = 0
  /\ pageCalls = <<>>

\* the toolbar after mount: the given actions prop, every column visible,
\* no listener on document (the effect returns early while openDropdown is
\* null)
InitToolbar(acts) ==
  /\ actions = acts
  /\ visibleColumns = [i \in 1..Len(Columns) |-> Columns[i].accessor]
  /\ listeners = 0
  /\ mounted = TRUE

\* TableBlock's defaults: selectable = false, multiSelect = true, actions = []
Init ==
  /\ \E k \in 0..MaxRows : \E ps \in 1..MaxPageSize : InitTable(PoolPrefix(k), ps)
  /\ InitSelection(FALSE, TRUE)
  /\ InitToolbar(<<>>)

Toolbar ==
  \/ \E menu \in {"filter", "sort", "columns", "actions"} : ToggleDropdown(menu)
  \/ CloseDropdown
  \/ \E term \in SearchTerms : SetSearchTerm(term)
  \/ \E g \in 1..Len(FilterGroups) : \E value \in RadioValues(FilterGroups[g]) :
       SetActiveFilter(g, value)
  \/ \E accessor \in SortableColumns : handleMenuSortItemClick(accessor)

Next ==
  \/ Toolbar
  \/ \E accessor \in Accessors : HeaderClick(accessor)
  \/ \E p \in 1..(MaxRows + 1) : PageNumberClick(p)
  \/ FirstPageClick
  \/ PreviousClick
  \/ NextClick
  \/ \E k \in 0..MaxRows : SetData(PoolPrefix(k))
  \/ SetColumns

Spec == Init /\ [][Next]_vars

(***************************************************************************)
(* The toolbar of TableBlock with the default page size, over every array  *)
(* of distinct pool rows: the specification under which the stages of the  *)
(* derived rows are checked.                                               *)
(***************************************************************************)
InitRows ==
  /\ \E d \in DataArrays(MaxRows) : InitTable(d, DefaultPageSize)
  /\ InitSelection(FALSE, TRUE)
  /\ InitToolbar(<<>>)

SpecRows == InitRows /\ [][Toolbar]_vars

(***************************************************************************)
(* TableBlock with selectable set and bulk actions supplied: the four      *)
(* menus of the toolbar next to the selection that renders the bulk-action *)
(* button.                                                                 *)
(***************************************************************************)
InitMenus ==
  /\ InitTable(PoolPrefix(MenuRows), DefaultPageSize)
  /\ \E multi \in BOOLEAN : InitSelection(TRUE, multi)
  /\ InitToolbar(Actions)

NextMenus ==
  \/ Toolbar
  \/ \E accessor \in Accessors : HeaderClick(accessor)
  \/ \E i \in 1..MenuRows : RowCheckboxClick(i)
  \/ SelectAllClick
  \/ \E k \in 1..Len(Actions) : ActionItemClick(k)

SpecMenus == InitMenus /\ [][NextMenus]_vars

(***************************************************************************)
(* TableBlock with its menus, document listeners, row selection and bulk    *)
(* actions, for every setting of selectable and multiSelect, with and      *)
(* without actions, until it is unmounted.                                 *)
(***************************************************************************)
InitPopovers ==
  /\ InitTable(PoolPrefix(MenuRows), DefaultPageSize)
  /\ \E sel \in BOOLEAN : \E multi \in BOOLEAN : InitSelection(sel, multi)
  /\ \E acts \in {<<>>, Actions} : InitToolbar(acts)

NextPopovers ==
  \/ \E menu \in Menus : ToggleDropdown(menu)
  \/ \E menu \in Menus \cup {"none"} : \E part \in {"button", "popover", "document"} :
       MouseDown(Element(menu, part))
  \/ \E key \in {"Escape", "Tab"} : KeyDown(key)
  \/ \E accessor \in SortableColumns : handleMenuSortItemClick(accessor)
  \/ \E i \in 1..MenuRows : RowCheckboxClick(i)
  \/ SelectAllClick
  \/ \E k \in 1..Len(Actions) : ActionItemClick(k)
  \/ Unmount

SpecPopovers == InitPopovers /\ [][NextPopovers]_vars

(***************************************************************************)
(* The sort menu of TableBlock over every array of distinct rows whose age *)
(* column mixes numbers, a string and a boolean: the specification under   *)
(* which the comparator is checked.                                       *)
(***************************************************************************)
InitCompare ==
  /\ \E d \in ArraysOf(MixedRowPool, MaxRows) : InitTable(d, DefaultPageSize)
  /\ InitSelection(FALSE, TRUE)
  /\ InitToolbar(<<>>)

NextCompare ==
  \/ ToggleDropdown("sort")
  \/ \E accessor \in SortableColumns : handleMenuSortItemClick(accessor)

SpecCompare == InitCompare /\ [][NextCompare]_vars

(***************************************************************************)
(* TableBlock with its columns menu next to both ways of sorting and the   *)
(* row selection.                                                          *)
(***************************************************************************)
InitColumns ==
  /\ InitTable(PoolPrefix(MenuRows), DefaultPageSize)
  /\ \E multi \in BOOLEAN : InitSelection(TRUE, multi)
  /\ InitToolbar(Actions)

NextColumns ==
  \/ \E menu \in {"sort", "columns"} : ToggleDropdown(menu)
  \/ \E accessor \in Accessors : ToggleColumn(accessor)
  \/ SetColumns
  \/ \E accessor \in SortableColumns : handleMenuSortItemClick(accessor)
  \/ \E accessor \in Accessors : HeaderClick(accessor)
  \/ \E i \in 1..MenuRows : RowCheckboxClick(i)
  \/ SelectAllClick

SpecColumns == InitColumns /\ [][NextColumns]_vars

(***************************************************************************)
(* BaseTableBlock on its own, under a parent that passes sortColumn and    *)
(* sortDirection as it holds them (null when unsorted) and stores what     *)
(* onSortChange reports, as the ControlledWrapper of the test suite does,  *)
(* or under a parent that passes neither (the table sorts by itself).      *)
(***************************************************************************)
\* click, Enter or Space on a header: nothing happens unless the column can
\* sort
BaseHeaderClick(accessor) ==
  /\ accessor \in Accessors
  /\ IF canSort(accessor)
     THEN LET toggled == toggleSortBy(sortBy, accessor)
              calls == sortNotification(toggled, sortColumn, sortDirection)
          IN /\ sortBy' = toggled
             /\ sortCalls' = calls
             /\ sortColumn' = IF calls = <<>> THEN sortColumn ELSE calls[1][1]
             /\ sortDirection' = IF calls = <<>> THEN sortDirection ELSE calls[1][2]
     ELSE /\ sortCalls' = <<>>
          /\ UNCHANGED << sortColumn, sortDirection, sortBy >>
  /\ UNCHANGED << data, pageSize, pageNumber, showPagination, openDropdown, searchTerm,
                  activeFilters, tableData, currentPage >>
  /\ NoSelectionEvent

\* the checkbox of the i-th displayed row; the parent passes no selectedRows
\* and only records what onSelectionChange reports
BaseRowCheckboxClick(i) ==
  LET shown == displayedRows(baseRows, showPagination, currentPage, pageSize)
  IN /\ selectable
     /\ i \in 1..Len(shown)
     /\ \E found \in BOOLEAN :
          LET change == SelectionCellChange(shown[i], found, baseRows)
          IN /\ selectedRowIds' = change.selectedRowIds
             /\ selectionCalls' = change.selectionCalls
     /\ sortCalls' = <<>>
     /\ UNCHANGED << data, pageSize, pageNumber, showPagination, openDropdown, searchTerm,
                     activeFilters, sortColumn, sortDirection, tableData, sortBy,
                     currentPage, selectedRows >>
     /\ PropsUnchanged

\* the header's 'select all' checkbox
BaseSelectAllClick ==
  /\ selectable
  /\ LET change == SelectionHeaderChange(baseRows)
     IN /\ selectedRowIds' = change.selectedRowIds
        /\ selectionCalls' = change.selectionCalls
  /\ sortCalls' = <<>>
  /\ UNCHANGED << data, pageSize, pageNumber, showPagination, openDropdown, searchTerm,
                  activeFilters, sortColumn, sortDirection, tableData, sortBy, currentPage,
                  selectedRows >>
  /\ PropsUnchanged

\* the parent passes another data array: react-table resets sortBy while it
\* sorts by itself, and resets the selection
BaseSetData(d) ==
  /\ d # tableData
  /\ tableData' = d
  /\ sortBy' = IF isControlledSort(sortColumn, sortDirection) THEN sortBy
               ELSE initialSortBy(sortColumn, sortDirection)
  /\ sortCalls' = <<>>
  /\ selectedRowIds' = initialSelectedRowIds(FALSE, selectedRows, d)
  /\ selectionCalls' =
       selectionNotification(multiSelect, selectedRowIds, selectedRowIds',
                             selectedFlatRows(d, d, selectedRowIds'))
  /\ UNCHANGED << data, pageSize, pageNumber, showPagination, openDropdown, searchTerm,
                  activeFilters, sortColumn, sortDirection, currentPage, selectedRows >>
  /\ PropsUnchanged

\* the parent passes another pageNumber, one of the pages there are
BaseSetPageNumber(p) ==
  /\ p # pageNumber
  /\ p \in 1..totalPages(Len(tableData), pageSize)
  /\ pageNumber' = p
  /\ currentPage' = p
  /\ sortCalls' = <<>>
  /\ UNCHANGED << data, pageSize, showPagination, openDropdown, searchTerm, activeFilters,
                  sortColumn, sortDirection, tableData, sortBy >>
  /\ NoSelectionEvent

InitBase ==
  /\ data = <<>>
  /\ openDropdown = Null
  /\ searchTerm = <<>>
  /\ activeFilters = [id \in GroupIds |-> ALL_FILTER_VALUE]
  /\ tableData \in {PoolPrefix(k) : k \in 0..MaxRows}
  /\ pageSize \in 1..MaxPageSize
  /\ showPagination \in BOOLEAN
  /\ pageNumber = DefaultPageNumber
  /\ currentPage = DefaultPageNumber
  /\ \E sc \in SortableColumns \cup {Null, Undefined} :
       /\ sortColumn = sc
       /\ sortDirection \in (IF sc \in {Null, Undefined} THEN {sc} ELSE {"asc", "desc"})
  /\ sortBy = initialSortBy(sortColumn, sortDirection)
  /\ sortCalls = <<>>
  /\ \E sel \in BOOLEAN : \E multi \in BOOLEAN :
       /\ (multi => sel)
       /\ InitSelection(sel, multi)
  /\ InitToolbar(<<>>)

NextBase ==
  \/ \E accessor \in Accessors : BaseHeaderClick(accessor)
  \/ \E i \in 1..MaxRows : BaseRowCheckboxClick(i)
  \/ BaseSelectAllClick
  \/ \E k \in 0..MaxRows : BaseSetData(PoolPrefix(k))
  \/ \E p \in 1..(MaxRows + 1) : BaseSetPageNumber(p)
  \/ \E p \in 1..(MaxRows + 1) : PageNumberClick(p)
  \/ FirstPageClick
  \/ PreviousClick
  \/ NextClick

SpecBase == InitBase /\ [][NextBase]_vars

(***************************************************************************)
(* BaseTableBlock on its own with row selection, over every array of       *)
(* distinct rows of which some carry an id: the specification under which  *)
(* the identity of rows is checked.                                        *)
(***************************************************************************)
InitRowIds ==
  /\ data = <<>>
  /\ openDropdown = Null
  /\ searchTerm = <<>>
  /\ activeFilters = [id \in GroupIds |-> ALL_FILTER_VALUE]
  /\ tableData \in ArraysOf(IdRowPool, MaxRows)
  /\ pageSize = DefaultPageSize
  /\ showPagination = FALSE
  /\ pageNumber = DefaultPageNumber
  /\ currentPage = DefaultPageNumber
  /\ sortColumn = Undefined
  /\ sortDirection = Undefined
  /\ sortBy = initialSortBy(Undefined, Undefined)
  /\ sortCalls = <<>>
  /\ \E multi \in BOOLEAN : InitSelection(TRUE, multi)
  /\ InitToolbar(<<>>)

NextRowIds ==
  \/ \E i \in 1..MaxRows : BaseRowCheckboxClick(i)
  \/ BaseSelectAllClick

SpecRowIds == InitRowIds /\ [][NextRowIds]_vars

(***************************************************************************)
(* Pagination on its own, under a parent that stores the page onPageChange *)
(* reports and passes it back as currentPage.                              *)
(***************************************************************************)
\* a click on an enabled button of Pagination: onPageChange(button's page)
PaginationClick(control, page) ==
  /\ [control |-> control, page |-> page, disabled |-> FALSE]
       \in PaginationButtons(currentPage, totalPagesProp)
  /\ pageCalls' = <<page>>
  /\ currentPage' = page
  /\ UNCHANGED << data, pageSize, pageNumber, showPagination, openDropdown, searchTerm,
                  activeFilters, sortColumn, sortDirection, tableData, sortBy, sortCalls,
                  selectable, multiSelect, selectedRows, selectedRowIds, selectionCalls,
                  actionCalls, totalPagesProp, actions, visibleColumns, listeners,
                  mounted >>

FirstPageButtonClick == PaginationClick("first", 1)

PreviousButtonClick == \E page \in 1..MaxPages : PaginationClick("previous", page)

PageButtonClick(page) == PaginationClick("page", page)

NextButtonClick == \E page \in 1..MaxPages : PaginationClick("next", page)

InitPagination ==
  /\ data = <<>>
  /\ pageSize = DefaultPageSize
  /\ pageNumber = DefaultPageNumber
  /\ showPagination = FALSE
  /\ openDropdown = Null
  /\ searchTerm = <<>>
  /\ activeFilters = [id \in GroupIds |-> ALL_FILTER_VALUE]
  /\ sortColumn = Undefined
  /\ sortDirection = Undefined
  /\ tableData = <<>>
  /\ sortBy = <<>>
  /\ sortCalls = <<>>
  /\ selectable = FALSE
  /\ multiSelect = FALSE
  /\ selectedRows = <<>>
  /\ selectedRowIds = {}
  /\ selectionCalls = <<>>
  /\ actionCalls = <<>>
  /\ totalPagesProp \in 0..MaxPages
  /\ currentPage \in 1..(IF totalPagesProp < 1 THEN 1 ELSE totalPagesProp)
  /\ pageCalls = <<>>
  /\ InitToolbar(<<>>)

NextPagination ==
  \/ FirstPageButtonClick
  \/ PreviousButtonClick
  \/ \E page \in 1..MaxPages : PageButtonClick(page)
  \/ NextButtonClick

SpecPagination == InitPagination /\ [][NextPagination]_vars

(***************************************************************************)
(* Properties.                                                             *)
(***************************************************************************)
\* position of a row in an array of distinct rows
IndexIn(seq, row) == CHOOSE i \in 1..Len(seq) : seq[i] = row

\* seq lists exactly the members of set, each once
ListsExactly(seq, set) == Range(seq) = set /\ Len(seq) = Cardinality(set)

\* C1: in TableBlock, whenever the active filter-group selection or the
\* search term changes, the current page of the table becomes page 1.
C1_FilterOrSearchResetsPage ==
  [][(searchTerm' # searchTerm \/ activeFilters' # activeFilters) => currentPage' = 1]_vars

\* C2: with pagination enabled the current page stays within
\* 1..max(1, ceil(rowCount / pageSize)), also when the row count shrinks
\* (read for a caller whose own pageNumber prop names an existing page).
C2_PageInRange ==
  (showPagination /\ pageNumber <= totalPages(Len(tableData), pageSize)) =>
    /\ 1 <= currentPage
    /\ currentPage <= totalPages(Len(tableData), pageSize)

\* the filter-group stage as stated: every group is on All, or its chosen
\* option has no filterFn, or that filterFn accepts the row
PassesFilterGroups(row) ==
  \A g \in 1..Len(FilterGroups) :
    LET chosen == activeFilters[FilterGroups[g].id]
        options == FilterGroups[g].options
    IN \/ chosen = ALL_FILTER_VALUE
       \/ \E i \in 1..Len(options) :
            /\ options[i].value = chosen
            /\ (options[i].filterFn = Undefined \/ CallFilterFn(options[i].filterFn, row))

LowerCode(c) == IF c >= 65 /\ c <= 90 THEN c + 32 ELSE c

\* term occurs in text at some offset, letter case ignored
ContainsIgnoringCase(text, term) ==
  \E k \in 0..(Len(text) - Len(term)) :
    \A i \in 1..Len(term) : LowerCode(text[k + i]) = LowerCode(term[i])

\* the search stage as stated
PassesSearch(row) ==
  \/ searchTerm = <<>>
  \/ \E accessor \in Accessors :
       /\ row[accessor].t \notin {"null", "undefined"}
       /\ ContainsIgnoringCase(toString(row[accessor]), searchTerm)

\* C3: the rows handed to BaseTableBlock are the caller's data filtered by
\* the filter groups, then by the search term, then ordered by the active
\* sort (stable), and in data order when no sort is active; no row rejected
\* by a stage is among them.
C3_RowsFilteredSearchedSorted ==
  /\ ListsExactly(tableData,
                  {row \in Range(data) : PassesFilterGroups(row) /\ PassesSearch(row)})
  /\ \A i, j \in 1..Len(tableData) :
       i < j =>
         IF sortColumn # Null /\ sortDirection # Null
         THEN LET c == compareRows(tableData[i], tableData[j], sortColumn, sortDirection)
              IN c < 0 \/ (c = 0 /\ IndexIn(data, tableData[i]) < IndexIn(data, tableData[j]))
         ELSE IndexIn(data, tableData[i]) < IndexIn(data, tableData[j])

\* a sorted state in which the filter rejects a row the search would accept
\* and the search rejects a row the filter accepts
C3_Witness ==
  /\ searchTerm # <<>>
  /\ sortColumn # Null
  /\ Len(tableData) >= 1
  /\ \E r1, r2 \in Range(data) :
       /\ ~PassesFilterGroups(r1) /\ PassesSearch(r1)
       /\ PassesFilterGroups(r2) /\ ~PassesSearch(r2)

C5_SearchStage ==
  LET stage == dataAfterGlobalFilters(data, activeFilters) IN
  /\ ListsExactly(tableData, {row \in Range(stage) : PassesSearch(row)})
  /\ (searchTerm = <<>>) => ListsExactly(tableData, Range(stage))

\* "Ali" typed against Alice, Bob, Charlie leaves Alice alone
C5_Witness ==
  /\ data = PoolPrefix(3)
  /\ searchTerm = <<65, 108, 105>>
  /\ \A id \in GroupIds : activeFilters[id] = ALL_FILTER_VALUE
  /\ tableData = <<RowPool[1]>>

\* C6: values that are not both numbers are ordered by case-insensitive
\* comparison of their string forms.
C6_CaseInsensitiveOrder ==
  (sortColumn # Null /\ sortDirection # Null) =>
    \A i, j \in 1..Len(tableData) :
      LET a == tableData[i][sortColumn]
          b == tableData[j][sortColumn]
      IN (i < j /\ ~IsNullish(a) /\ ~IsNullish(b) /\ ~(a.t = "number" /\ b.t = "number")) =>
           IF sortDirection = "asc"
           THEN ~StrLess(ToLowerCase(toString(b)), ToLowerCase(toString(a)))
           ELSE ~StrLess(ToLowerCase(toString(a)), ToLowerCase(toString(b)))

\* C7: over a sort column holding only numbers, the ascending sort returns
\* a permutation of the filtered rows in non-decreasing numeric order and
\* the descending sort one in non-increasing order.
C7_NumericSort ==
  LET input == filteredData(data, activeFilters, searchTerm) IN
  (/\ sortColumn # Null
   /\ sortDirection # Null
   /\ \A row \in Range(input) : row[sortColumn].t = "number") =>
    /\ ListsExactly(tableData, Range(input))
    /\ \A i \in 1..(Len(tableData) - 1) :
         IF sortDirection = "asc"
         THEN tableData[i][sortColumn].n <= tableData[i + 1][sortColumn].n
         ELSE tableData[i][sortColumn].n >= tableData[i + 1][sortColumn].n

\* ages 30, 25, 35 sorted ascending come out Bob, Alice, Charlie
C7_Witness ==
  /\ data = PoolPrefix(3)
  /\ sortColumn = "age"
  /\ sortDirection = "asc"
  /\ tableData = <<RowPool[2], RowPool[1], RowPool[3]>>

C9_SortMenuCycle ==
  [][\A accessor \in SortableColumns :
       handleMenuSortItemClick(accessor) =>
         /\ (sortColumn = accessor /\ sortDirection = "asc") =>
              (sortColumn' = accessor /\ sortDirection' = "desc")
         /\ (sortColumn = accessor /\ sortDirection = "desc") =>
              (sortColumn' = Null /\ sortDirection' = Null)
         /\ (sortColumn # accessor) =>
              (sortColumn' = accessor /\ sortDirection' = "asc")]_vars

\* the menu has closed on a column sorted descending; the remounted base
\* table shows it
C9_Witness ==
  /\ sortColumn = "age"
  /\ sortDirection = "desc"
  /\ openDropdown = Null
  /\ sortCalls = <<>>
  /\ sortBy = << [id |-> "age", desc |-> TRUE] >>

\* C10: in controlled sort mode every header click that changes the
\* requested sort is reported by one onSortChange call carrying the
\* resulting (column, direction), also the step back to unsorted.
C10_EveryHeaderStepReported ==
  [][\A accessor \in SortableColumns :
       (/\ BaseHeaderClick(accessor)
        /\ isControlledSort(sortColumn, sortDirection)
        /\ sortBy' # sortBy) =>
         sortCalls' =
           << IF sortBy' = <<>>
              THEN <<accessor, Null>>
              ELSE <<sortBy'[1].id, IF sortBy'[1].desc THEN "desc" ELSE "asc">> >>]_vars

\* rows is ordered by the sort type on a column, ascending or descending
OrderedBy(rws, accessor, desc) ==
  \A i, j \in 1..Len(rws) :
    i < j => IF desc THEN alphanumeric(rws[i][accessor], rws[j][accessor]) >= 0
             ELSE alphanumeric(rws[i][accessor], rws[j][accessor]) <= 0

\* C11: with uncontrolled sorting and a fixed dataset, a sortable header
\* steps its column to ascending, then to descending, then to unsorted, and
\* the unsorted table displays the rows in the original data order again.
C11_HeaderToggleCycle ==
  [][\A accessor \in SortableColumns :
       (BaseHeaderClick(accessor) /\ ~isControlledSort(sortColumn, sortDirection)) =>
         /\ tableData' = tableData
         /\ ListsExactly(BaseRowsAt(tableData', sortBy', sortColumn', sortDirection'), Range(tableData))
         /\ IF sortBy = << [id |-> accessor, desc |-> FALSE] >>
            THEN /\ sortBy' = << [id |-> accessor, desc |-> TRUE] >>
                 /\ OrderedBy(BaseRowsAt(tableData', sortBy', sortColumn', sortDirection'), accessor, TRUE)
            ELSE IF sortBy = << [id |-> accessor, desc |-> TRUE] >>
            THEN /\ sortBy' = <<>>
                 /\ BaseRowsAt(tableData', sortBy', sortColumn', sortDirection') = tableData
            ELSE /\ sortBy' = << [id |-> accessor, desc |-> FALSE] >>
                 /\ OrderedBy(BaseRowsAt(tableData', sortBy', sortColumn', sortDirection'), accessor, FALSE)]_vars

\* two toggles in: the table sorts by itself, descending, and shows the rows
\* in another order than the data
C11_Witness ==
  /\ ~isControlledSort(sortColumn, sortDirection)
  /\ sortBy = << [id |-> "age", desc |-> TRUE] >>
  /\ Len(tableData) >= 3
  /\ baseRows # tableData

\* C12: a column that lacks sortable never becomes the sort column: a click
\* or key press on its header changes neither the sort state nor the row
\* order and emits no notification, and the sort menu has no entry for it.
C12_NonSortableNeverSorts ==
  [][/\ \A i \in 1..Len(sortBy') : sortBy'[i].id \in SortableColumns
     /\ sortColumn' \in SortableColumns \cup {Null}
     /\ \A accessor \in Accessors \ SortableColumns :
          /\ HeaderClick(accessor) =>
               /\ sortBy' = sortBy
               /\ sortColumn' = sortColumn
               /\ sortDirection' = sortDirection
               /\ TableRowsAt(tableData', sortBy', sortColumn', sortDirection') = tableRows
               /\ sortCalls' = <<>>
          /\ ~handleMenuSortItemClick(accessor)]_vars

\* the table sorts by itself on a sortable column beside a column that
\* cannot sort; a click on that column's header leaves this state as it is
C12_Witness ==
  /\ Accessors \ SortableColumns # {}
  /\ sortBy # <<>>
  /\ sortColumn = Null
  /\ sortCalls = <<>>
  /\ tableRows # tableData

\* the body rows of the base table on its own
baseDisplayedRows == displayedRows(baseRows, showPagination, currentPage, pageSize)

\* the rows the base table marks as checked and counts in its footer
baseSelectedRows == selectedFlatRows(baseRows, tableData, selectedRowIds)

\* C13: in single-select mode, after any sequence of row-checkbox and
\* 'select all' clicks, the selection (the rows shown as checked and
\* counted as selected) holds at most one row.
C13_SingleSelectAtMostOne ==
  (selectable /\ ~multiSelect) => Len(baseSelectedRows) <= 1

\* C14: in single-select mode a click on a row's checkbox, also while
\* another row is selected, makes onSelectionChange report exactly that row.
C14_SingleSelectReportsClickedRow ==
  [][\A i \in 1..MaxRows :
       (BaseRowCheckboxClick(i) /\ ~multiSelect) =>
         selectionCalls' = << << baseDisplayedRows[i] >> >>]_vars

\* row 2 has just been reported alone while row 1 was selected
C14_Witness ==
  /\ selectable
  /\ ~multiSelect
  /\ Len(tableData) >= 2
  /\ RowIdAt(tableData, 1) \in selectedRowIds
  /\ selectionCalls = << << tableData[2] >> >>

\* C15: in multi-select mode with no row selected, 'select all' selects
\* exactly the currently visible rows (the rows of the page under
\* pagination) and reports them; a second click deselects every row and
\* reports the empty list.
C15_SelectAllSelectsVisibleRows ==
  [][(BaseSelectAllClick /\ multiSelect /\ Len(baseDisplayedRows) > 0) =>
       /\ (selectedRowIds = {}) =>
            /\ Range(selectedFlatRows(tableData', tableData', selectedRowIds'))
                 = Range(baseDisplayedRows)
            /\ Len(selectionCalls') = 1
            /\ Range(selectionCalls'[1]) = Range(baseDisplayedRows)
       /\ isAllRowsSelected(tableData, selectedRowIds) =>
            /\ selectedRowIds' = {}
            /\ selectionCalls' = << <<>> >>]_vars

\* the page window over a row sequence: positions (currentPage - 1) * pageSize
\* up to, not including, min(currentPage * pageSize, row count)
IsPageWindowOf(shown, rws) ==
  LET lo == (currentPage - 1) * pageSize
      hi == IF currentPage * pageSize < Len(rws) THEN currentPage * pageSize ELSE Len(rws)
  IN /\ Len(shown) = hi - lo
     /\ \A k \in 1..Len(shown) : shown[k] = rws[lo + k]

\* C16 as stated: with pagination and the current page in range the body
\* rows are the page window of the row set the table was given, in the
\* given order; without pagination every row is displayed.
C16_WindowOfGivenRows ==
  IF showPagination
  THEN (currentPage \in 1..totalPages(Len(tableData), pageSize)) =>
         IsPageWindowOf(baseDisplayedRows, tableData)
  ELSE baseDisplayedRows = tableData

\* C16 amended: the body rows are the page window of the table's rows in
\* display order, which is the given order unless the table sorts by itself
\* (uncontrolled sorting with a header sort active); without pagination
\* every row is displayed, in display order.
C16_WindowOfDisplayOrder ==
  /\ IF showPagination
     THEN (currentPage \in 1..totalPages(Len(tableData), pageSize)) =>
            IsPageWindowOf(baseDisplayedRows, baseRows)
     ELSE baseDisplayedRows = baseRows
  /\ (isControlledSort(sortColumn, sortDirection) \/ sortBy = <<>>) => baseRows = tableData

\* the second, shorter page of three rows that the table has sorted by itself
C16_Witness ==
  /\ showPagination
  /\ pageSize = 2
  /\ currentPage = 2
  /\ Len(tableData) = 3
  /\ sortBy # <<>>
  /\ baseRows # tableData
  /\ Len(baseDisplayedRows) = 1

\* the label sequence PageNumbers computes for its props
pageNumbers == getPageNumbers(currentPage, totalPagesProp)

\* the page numbers of a label sequence, in order, without the markers
PagesOf(labels) ==
  LET IsPage(item) == item # Ellipsis IN SelectSeq(labels, IsPage)

\* C17: for totalPages >= 2 and currentPage in 1..totalPages the labels
\* start with page 1, end with the last page, contain the current page,
\* list the pages in strictly increasing order, and hold an ellipsis exactly
\* between neighbouring listed pages that differ by more than 1.
C17_PageLabelsWellFormed ==
  (totalPagesProp >= 2 /\ currentPage \in 1..totalPagesProp) =>
    LET labels == pageNumbers
        n == Len(labels)
    IN /\ labels[1] = 1
       /\ labels[n] = totalPagesProp
       /\ currentPage \in Range(labels)
       /\ \A i \in 1..(Len(PagesOf(labels)) - 1) : PagesOf(labels)[i] < PagesOf(labels)[i + 1]
       /\ \A i \in 1..(n - 1) :
            /\ (labels[i] # Ellipsis /\ labels[i + 1] # Ellipsis) => labels[i + 1] = labels[i] + 1
            /\ (labels[i] = Ellipsis) => labels[i + 1] # Ellipsis
       /\ \A i \in 2..(n - 1) :
            (labels[i] = Ellipsis) => labels[i + 1] > labels[i - 1] + 1

\* a window in the middle of many pages, a marker on either side
C17_Witness ==
  /\ totalPagesProp = MaxPages
  /\ currentPage = 6
  /\ pageCalls = <<6>>
  /\ Len(pageNumbers) = 7

\* C18: the labels are [1, 2, 3, ellipsis, 5] on page 1 of 5,
\* [1, ellipsis, 3, 4, 5] on page 5 of 5 and
\* [1, ellipsis, 4, 5, 6, ellipsis, 10] on page 5 of 10.
C18_PageLabelExamples ==
  /\ (totalPagesProp = 5 /\ currentPage = 1) => pageNumbers = <<1, 2, 3, Ellipsis, 5>>
  /\ (totalPagesProp = 5 /\ currentPage = 5) => pageNumbers = <<1, Ellipsis, 3, 4, 5>>
  /\ (totalPagesProp = 10 /\ currentPage = 5) =>
       pageNumbers = <<1, Ellipsis, 4, 5, 6, Ellipsis, 10>>

\* page 5 of 10, reached by a click on the button of page 5
C18_Witness ==
  /\ totalPagesProp = 10
  /\ currentPage = 5
  /\ pageCalls = <<5>>

\* the buttons of one kind among the buttons a component renders
ButtonsOf(buttons, control) == {b \in buttons : b.control = control}

\* C19: in PageNumbers, PaginationControls and Pagination, First and
\* Previous are disabled exactly on page 1, Next exactly on the last page,
\* the button of the current page is disabled, and nothing is rendered for
\* totalPages <= 1.
C19_DisabledControls ==
  LET numbers == PageNumbersButtons(currentPage, totalPagesProp)
      controls == PaginationControlsButtons(currentPage, totalPagesProp)
      both == PaginationButtons(currentPage, totalPagesProp)
  IN IF totalPagesProp <= 1
     THEN numbers = {} /\ controls = {} /\ both = {}
     ELSE /\ both = numbers \cup controls
          /\ ButtonsOf(numbers, "first") # {} /\ ButtonsOf(numbers, "previous") # {}
          /\ ButtonsOf(controls, "previous") # {} /\ ButtonsOf(controls, "next") # {}
          /\ \A b \in ButtonsOf(both, "first") \cup ButtonsOf(both, "previous") :
               b.disabled <=> (currentPage = 1)
          /\ \A b \in ButtonsOf(both, "next") : b.disabled <=> (currentPage = totalPagesProp)
          /\ \A b \in ButtonsOf(both, "page") : (b.page = currentPage) => b.disabled
          /\ \E b \in ButtonsOf(both, "page") : b.page = currentPage

\* the last page has been reached by Next: Next is off, Previous is on
C19_Witness ==
  /\ totalPagesProp >= 3
  /\ currentPage = totalPagesProp
  /\ pageCalls = <<totalPagesProp>>

\* the menus TableBlock renders open for given values of the state: a menu
\* is rendered when openDropdown names it and its button is rendered
OpenMenusAt(od, sel) ==
  {menu \in {"sort", "columns", "filter", "actions"} :
     /\ od = menu
     /\ (menu = "filter") => Len(FilterGroups) > 0
     /\ (menu = "sort") => SortableColumns # {}
     /\ (menu = "actions") => ActionsButtonRendered(sel)}

\* C20: in every reachable state of TableBlock at most one of the four menus
\* is open, and opening a menu while another one is open leaves only the
\* newly opened menu open.
C20_OneMenuOpen ==
  [][/\ Cardinality(OpenMenusAt(openDropdown, selectedRows)) <= 1
     /\ Cardinality(OpenMenusAt(openDropdown', selectedRows')) <= 1
     /\ \A menu \in {"sort", "columns", "filter", "actions"} :
          (/\ ToggleDropdown(menu)
           /\ OpenMenusAt(openDropdown, selectedRows) # {}
           /\ menu \notin OpenMenusAt(openDropdown, selectedRows)) =>
            OpenMenusAt(openDropdown', selectedRows') = {menu}]_vars

\* the bulk-action menu is open over a selection of two rows
C20_Witness ==
  /\ openDropdown = "actions"
  /\ Len(selectedRows) = 2
  /\ OpenMenusAt(openDropdown, selectedRows) = {"actions"}

\* the elements outside the popover of a menu, and those outside both the
\* popover and the button that opens it
OutsidePopover(menu) ==
  RenderedElements(openDropdown, selectedRows) \ {Element(menu, "popover")}

OutsideMenuAndButton(menu) == OutsidePopover(menu) \ {Element(menu, "button")}

\* C21 as stated: while a menu is open, Escape closes it, and so does a
\* mousedown on any element outside the open menu; for each of the four menus.
C21_MouseDownOutsidePopoverCloses ==
  \A menu \in OpenMenusAt(openDropdown, selectedRows) :
    /\ handleEsc(openDropdown, "Escape") = Null
    /\ \A target \in OutsidePopover(menu) :
         handle(openDropdown, selectedRows, target) = Null

\* C21: while a menu is open, Escape closes it, and so does a mousedown on
\* any element outside both the open menu and the button that opens it; a
\* mousedown on that button closes the columns menu and leaves the filter,
\* sort and bulk-action menus open; a mousedown inside the menu leaves it open.
C21_MouseDownOutsideMenuAndButtonCloses ==
  \A menu \in OpenMenusAt(openDropdown, selectedRows) :
    /\ handleEsc(openDropdown, "Escape") = Null
    /\ \A target \in OutsideMenuAndButton(menu) :
         handle(openDropdown, selectedRows, target) = Null
    /\ handle(openDropdown, selectedRows, Element(menu, "button")) =
         (IF menu = "columns" THEN Null ELSE menu)
    /\ handle(openDropdown, selectedRows, Element(menu, "popover")) = menu

\* the bulk-action menu is open and a mousedown can land on each other button
C21_Witness ==
  /\ OpenMenusAt(openDropdown, selectedRows) = {"actions"}
  /\ {Element(menu, "button") : menu \in Menus \ {"actions"}} \subseteq OutsideMenuAndButton("actions")
  /\ listeners = 1

\* C22: toggling a column's visibility changes only the set of rendered
\* columns: the rows handed to the base table, the sort state, the search
\* term, the active filters, the selection and the open menu are unchanged,
\* and toggling the same column again restores the rendered columns in
\* their original order.
C22_ToggleColumnOnlyChangesColumns ==
  [][\A accessor \in Accessors :
       ToggleColumn(accessor) =>
         /\ tableData' = tableData
         /\ sortColumn' = sortColumn /\ sortDirection' = sortDirection /\ sortBy' = sortBy
         /\ searchTerm' = searchTerm
         /\ activeFilters' = activeFilters
         /\ selectedRows' = selectedRows /\ selectedRowIds' = selectedRowIds
         /\ openDropdown' = openDropdown
         /\ Range(baseColumns(visibleColumns')) =
              (IF accessor \in Range(baseColumns(visibleColumns))
               THEN Range(baseColumns(visibleColumns)) \ {accessor}
               ELSE Range(baseColumns(visibleColumns)) \cup {accessor})
         /\ baseColumns(toggleColumn(visibleColumns', accessor)) = baseColumns(visibleColumns)]_vars

\* a column was hidden and shown again while the table is sorted and a row is
\* selected: visibleColumns lists it last, the rendered columns are the
\* original ones
C22_Witness ==
  /\ openDropdown = "columns"
  /\ visibleColumns = <<"age", "status", "name">>
  /\ baseColumns(visibleColumns) = <<"name", "age", "status">>
  /\ sortColumn = "name"
  /\ selectedRows # <<>>

\* C23: the 'Selected Actions' button is rendered, can be clicked, and the
\* bulk-action menu is shown and its entries can be clicked, only when the
\* table is selectable, at least one action is supplied and at least one row
\* is selected.
C23_ActionsButtonOnlyWithSelection ==
  [][((\/ Element("actions", "button") \in RenderedElements(openDropdown, selectedRows)
       \/ "actions" \in OpenMenusAt(openDropdown, selectedRows)
       \/ ToggleDropdown("actions")
       \/ \E k \in 1..Len(Actions) : ActionItemClick(k))
      => (selectable /\ Len(actions) > 0 /\ Len(selectedRows) > 0))]_vars

\* the bulk-action menu is open in a selectable table with actions and one
\* selected row
C23_Witness ==
  /\ selectable /\ actions = Actions /\ Len(selectedRows) = 1
  /\ openDropdown = "actions"
  /\ Element("actions", "popover") \in RenderedElements(openDropdown, selectedRows)

\* the action with a given label
ActionLabelled(label) == CHOOSE a \in Range(Actions) : a.label = label

\* C24: in the open bulk-action menu a hidden action has no entry to click,
\* the handler of a disabled action is never called, and a click on any other
\* entry calls its handler exactly once with the rows TableBlock holds as
\* selected and closes the menu; in a multi-select table those are the rows
\* the base table marks as selected.
C24_ActionHandlerCalls ==
  [][/\ \A k \in 1..Len(Actions) :
          ActionItemClick(k) =>
            /\ ~CallActionPredicate(actions[k].hidden, selectedRows)
            /\ IF CallActionPredicate(actions[k].disabled, selectedRows)
               THEN actionCalls' = <<>> /\ openDropdown' = openDropdown
               ELSE /\ actionCalls' = << <<actions[k].label, selectedRows>> >>
                    /\ openDropdown' = Null
                    /\ selectedRows # <<>>
                    /\ multiSelect =>
                         Range(selectedRows) =
                           Range(selectedFlatRows(tableData, tableData, selectedRowIds))
     /\ Len(actionCalls') <= 1
     /\ \A i \in 1..Len(actionCalls') :
          /\ ~CallActionPredicate(ActionLabelled(actionCalls'[i][1]).hidden, selectedRows)
          /\ ~CallActionPredicate(ActionLabelled(actionCalls'[i][1]).disabled, selectedRows)
          /\ actionCalls'[i][2] = selectedRows
          /\ openDropdown = "actions"]_vars

\* the handler of 'merge', disabled for fewer than two rows, has just been
\* called with both rows and the menu is closed
C24_Witness ==
  /\ Len(actionCalls) = 1
  /\ actionCalls[1][1] = "merge"
  /\ actionCalls[1][2] = selectedRows
  /\ Len(selectedRows) = 2
  /\ openDropdown = Null

\* C26: the document listeners are registered exactly while a menu is open:
\* none while all menus are closed, exactly one pair while a menu is open,
\* none after the component is unmounted.
C26_ListenersExactlyWhileMenuOpen ==
  listeners = (IF mounted /\ OpenMenusAt(openDropdown, selectedRows) # {} THEN 1 ELSE 0)

\* the registration follows the recorded value of openDropdown
ListenersFollowOpenDropdown ==
  listeners = (IF mounted /\ openDropdown # Null THEN 1 ELSE 0)

\* C28: whenever openDropdown is 'actions', at least one row is selected and
\* at least one action is supplied.
C28_ActionsOpenOnlyWithSelection ==
  (openDropdown = "actions") => (Len(selectedRows) > 0 /\ Len(actions) > 0)

\* C25: when the caller supplies a new data array or a new columns array,
\* all view state is reset to the initial values: sort column and direction,
\* search term, active filters, selection, column visibility and current page.
C25_NewDataOrColumnsResetsViewState ==
  [][((\E k \in 0..MaxRows : SetData(PoolPrefix(k))) \/ SetColumns) =>
       /\ sortColumn' = Null /\ sortDirection' = Null
       /\ searchTerm' = <<>>
       /\ activeFilters' = [id \in GroupIds |-> ALL_FILTER_VALUE]
       /\ selectedRows' = <<>>
       /\ visibleColumns' = [i \in 1..Len(Columns) |-> Columns[i].accessor]
       /\ currentPage' = pageNumber]_vars

\* C27: after any sequence of header clicks and sort-menu clicks, the sort
\* state of TableBlock (sortColumn, sortDirection) and the sort state of the
\* base table it renders (state.sortBy) denote the same column and direction.
C27_SortStatesAgree ==
  sortBy = (IF sortColumn # Null /\ sortDirection # Null
            THEN << [id |-> sortColumn, desc |-> (sortDirection = "desc")] >>
            ELSE <<>>)

\* C29: getRowId gives distinct identities to distinct rows of one data
\* array whose carried ids are pairwise distinct, so that a
\* click on one row's checkbox of a multi-select table never changes whether
\* another row is marked as selected.
C29_RowIdsDistinct ==
  [][/\ \A i, j \in 1..Len(tableData) :
          i # j => RowIdAt(tableData, i) # RowIdAt(tableData, j)
     /\ \A i \in 1..Len(tableData) :
          (multiSelect /\ BaseRowCheckboxClick(i)) =>
            \A j \in 1..Len(tableData) :
              j # i => ((RowIdAt(tableData, j) \in selectedRowIds')
                        <=> (RowIdAt(tableData, j) \in selectedRowIds))]_vars

\* C30: the comparator TableBlock sorts with is a consistent ordering of the
\* rows of the data for every sortable column and either direction:
\* antisymmetric and transitive.
C30_ComparatorConsistent ==
  \A col \in SortableColumns : \A dir \in {"asc", "desc"} :
    ConsistentComparator(Range(data), col, dir)

====
